---- MODULE Spec2Model ----
(***************************************************************************)
(* A model of zlinktek/file_splitter (src/main.py).                        *)
(*                                                                         *)
(* optimized_split plans split offsets on frame-header boundaries and      *)
(* copies each segment to part_<n>.dat; start_processing validates the     *)
(* form fields, starts optimized_split on a worker thread and polls the    *)
(* progress queue from the Tk main loop.                                   *)
(*                                                                         *)
(* Offsets are 0-based as in Python; sequences are 1-based as in TLA+.     *)
(* Python's None is modelled by -1 wherever the code holds an offset.      *)
(***************************************************************************)
EXTENDS Integers, Sequences, FiniteSets, TLC

VARIABLES
    input_file,         \* the bytes of the file at the input path
    frame_header,       \* optimized_split's frame_header argument
    max_size_gb,        \* max_size_gb, held in units of 2^-31 GB (half bytes)
    queue_given,        \* FALSE when progress_queue is None
    max_size,           \* main.py:29
    actual_splits,      \* main.py:39
    current_position,   \* main.py:40
    next_target,        \* main.py:46 (None before the first planning step)
    last_valid_header,  \* main.py:57
    pos,                \* main.py:58
    part_num,           \* main.py:94
    parts,              \* parts[k] = the bytes written to part_<k>.dat
    warnings,           \* part numbers messagebox.showwarning was raised for
    progress_queue,     \* the values put and not yet taken from the queue
    pc,                 \* where optimized_split is
    exception,          \* the exception optimized_split raised, if any
    result,             \* optimized_split's return value (None before)
    header_text,        \* header_entry.get(), a sequence of characters
    main_pc,            \* where the Tk main thread is
    thread,             \* the worker thread run_split_task
    after_queue,        \* callbacks scheduled with root.after(0, ...)
    progress_var,       \* the IntVar behind the progress bar
    status_label,       \* the text shown by status_label
    last_dialog         \* the last messagebox shown from the main thread

split_vars == <<input_file, frame_header, max_size_gb, queue_given, max_size,
                actual_splits, current_position, next_target,
                last_valid_header, pos, part_num, parts, warnings,
                progress_queue, pc, exception, result>>
gui_vars == <<header_text, main_pc, thread, after_queue, progress_var,
              status_label, last_dialog>>
vars == <<split_vars, gui_vars>>

---------------------------------------------------------------------------
(* Bounds of the model. *)

\* longest run of free bytes after the padding of an input file
MaxTail == 3
\* longest frame header handed to optimized_split directly
MaxHeaderLen == 2
\* largest max_size, in bytes, tried on an unpadded file
MaxSmallSize == 4
\* longest text typed into the header entry
MaxTextLen == 3
\* longest file the GUI runs are started on
MaxGuiLen == 4
\* largest max_size_gb typed into the size entry, in units of 2^-31 GB
MaxGuiGb == 5

(* Program constants. *)

\* main.py:49, the backward extent of the search window, in header lengths
BackFactor == 100
\* main.py:50, the forward extent of the search window, in header lengths
FwdFactor == 2
\* main.py:114, the copy buffer
ChunkBytes == 100 * 1024 ^ 2

None == -1

Min(a, b) == IF a < b THEN a ELSE b
Max(a, b) == IF a > b THEN a ELSE b

SeqsUpTo(S, n) == UNION {[1..k -> S] : k \in 0..n}

\* the byte values files and headers are built from: 0x55 and 0xAA
Bytes == {85, 170}

---------------------------------------------------------------------------
(* Python built-ins the code relies on. *)

\* f.seek(start); f.read(n): at most n bytes, fewer at the end of the file
FileRead(data, start, n) ==
    SubSeq(data, start + 1, Min(start + n, Len(data)))

\* os.path.getsize(input_file)
file_size == Len(input_file)

MatchAt(hay, needle, i) ==
    \A j \in 1..Len(needle) : hay[i + j] = needle[j]

\* bytes.find(needle, pos): the lowest index >= pos where needle occurs, or -1
BytesFind(hay, needle, from) ==
    LET last == Len(hay) - Len(needle)
    IN IF \E i \in from..last : MatchAt(hay, needle, i)
       THEN CHOOSE i \in from..last :
                /\ MatchAt(hay, needle, i)
                /\ \A j \in from..(i - 1) : ~MatchAt(hay, needle, j)
       ELSE -1

\* The percentages at which int(k / 100 * 100) is k - 1 in IEEE-754 doubles
\* (0.29 * 100 = 28.999999999999996, and likewise 0.57 and 0.58).
FloatShort == {29, 57, 58}

\* int(total_processed / file_size * 100), file_size > 0.  True division
\* rounds to a double; where the exact percentage is not an integer the
\* rounding error cannot cross one, where it is an integer the product falls
\* short of it exactly for the values in FloatShort.
ProgressPercent(total_processed, size) ==
    LET exact == (total_processed * 100) \div size
    IN IF (total_processed * 100) % size = 0 /\ exact \in FloatShort
       THEN exact - 1
       ELSE exact

\* int(max_size_gb * 1024 ** 3), max_size_gb >= 0 in units of 2^-31 GB
MaxSizeBytes(gb) == gb \div 2

---------------------------------------------------------------------------
(* optimized_split, step 1: the split-point planner. *)

\* main.py:44
LoopCondOffByOne(cur, msize, size) == cur + msize + 1 < size
LoopCond(cur, msize, size) == cur + msize < size

\* main.py:66
GlobalPosNoBase(search_start, header_pos) == header_pos
GlobalPos(search_start, header_pos) == search_start + header_pos

\* main.py:69
KeepHeaderStrict(global_pos, target) == global_pos < target
KeepHeaderAlways(global_pos, target) == TRUE
KeepHeader(global_pos, target) == global_pos <= target

\* main.py:49
SearchStart(target, hdr) == Max(0, target - Len(hdr) * BackFactor)
\* main.py:50
SearchEnd(target, hdr, size) == Min(size, target + Len(hdr) * FwdFactor)

\* main.py:53-54
SearchData(data, hdr, target) ==
    FileRead(data, SearchStart(target, hdr),
             SearchEnd(target, hdr, Len(data)) - SearchStart(target, hdr))

\* main.py:59-76, one pass through the scan loop from pos, last being
\* last_valid_header: the new pos and last_valid_header, and whether the
\* loop goes round again
ScanIter(search_data, hdr, search_start, target, at, last) ==
    IF ~(at < Len(search_data))
    THEN [pos |-> at, last |-> last, more |-> FALSE]
    ELSE LET header_pos == BytesFind(search_data, hdr, at)
         IN IF header_pos = -1
            THEN [pos |-> at, last |-> last, more |-> FALSE]
            ELSE LET global_pos == GlobalPos(search_start, header_pos)
                 IN IF KeepHeader(global_pos, target)
                    THEN [pos |-> header_pos + Len(hdr), last |-> global_pos,
                          more |-> TRUE]
                    ELSE [pos |-> at, last |-> last, more |-> FALSE]

\* main.py:57-76, the scan loop run to its end: last_valid_header
RECURSIVE ScanWindow(_, _, _, _, _, _)
ScanWindow(search_data, hdr, search_start, target, at, last) ==
    LET it == ScanIter(search_data, hdr, search_start, target, at, last)
    IN IF it.more
       THEN ScanWindow(search_data, hdr, search_start, target, it.pos, it.last)
       ELSE it.last

\* main.py:46-76, last_valid_header after one iteration of the planning loop
PlanIteration(data, hdr, msize, cur) ==
    ScanWindow(SearchData(data, hdr, cur + msize), hdr,
               SearchStart(cur + msize, hdr), cur + msize, 0, None)

\* main.py:79
AcceptHeader(lvh, cur) == lvh # None /\ lvh > cur

\* main.py:84
RaisePositionCurrent(target, cur) == cur
RaisePosition(target, cur) == target

\* main.py:91
ClosePlanForgotten(splits, size) == splits
ClosePlan(splits, size) == Append(splits, size)

\* main.py:39-91 as a function of the inputs: the plan, or <<>> when
\* FrameHeaderNotFoundError is raised
RECURSIVE PlanFrom(_, _, _, _, _)
PlanFrom(data, hdr, msize, cur, splits) ==
    IF LoopCond(cur, msize, Len(data))
    THEN LET lvh == PlanIteration(data, hdr, msize, cur)
         IN IF AcceptHeader(lvh, cur)
            THEN PlanFrom(data, hdr, msize, lvh, Append(splits, lvh))
            ELSE <<>>
    ELSE ClosePlan(splits, Len(data))

---------------------------------------------------------------------------
(* optimized_split, step 2: the segment copier. *)

\* main.py:112-116
RECURSIVE CopyChunks(_, _, _, _)
CopyChunks(data, src_pos, remaining, dest) ==
    IF remaining > 0
    THEN LET chunk_size == Min(remaining, ChunkBytes)
         IN CopyChunks(data, src_pos + chunk_size, remaining - chunk_size,
                       dest \o FileRead(data, src_pos, chunk_size))
    ELSE dest

\* main.py:109-116
CopySegmentNoSeek(data, start, end) == CopyChunks(data, 0, end - start, <<>>)
CopySegment(data, start, end) == CopyChunks(data, start, end - start, <<>>)

NoException == [type |-> "None", position |-> None]

\* main.py:28-40, the state on entry to the planning loop
EnterSplit(gb) ==
    /\ max_size' = MaxSizeBytes(gb)
    /\ actual_splits' = <<0>>
    /\ current_position' = 0
    /\ pc' = "plan"

\* main.py:44-58, the head of one iteration of the planning loop
PlanStep ==
    /\ pc = "plan"
    /\ LoopCond(current_position, max_size, file_size)
    /\ next_target' = current_position + max_size
    /\ last_valid_header' = None
    /\ pos' = 0
    /\ pc' = "scan"
    /\ UNCHANGED <<input_file, frame_header, max_size_gb, queue_given,
                   max_size, actual_splits, current_position, part_num,
                   parts, warnings, progress_queue, exception, result>>
    /\ UNCHANGED gui_vars

\* main.py:59-76, one pass through the scan loop
ScanStep ==
    /\ pc = "scan"
    /\ LET it == ScanIter(SearchData(input_file, frame_header, next_target),
                          frame_header,
                          SearchStart(next_target, frame_header),
                          next_target, pos, last_valid_header)
       IN /\ pos' = it.pos
          /\ last_valid_header' = it.last
          /\ pc' = IF it.more THEN "scan" ELSE "decide"
    /\ UNCHANGED <<input_file, frame_header, max_size_gb, queue_given,
                   max_size, actual_splits, current_position, next_target,
                   part_num, parts, warnings, progress_queue, exception,
                   result>>
    /\ UNCHANGED gui_vars

\* main.py:79-89
PlanDecide ==
    /\ pc = "decide"
    /\ IF AcceptHeader(last_valid_header, current_position)
       THEN /\ actual_splits' = Append(actual_splits, last_valid_header)
            /\ current_position' = last_valid_header
            /\ progress_queue' =
                  IF queue_given
                  THEN Append(progress_queue,
                              ProgressPercent(last_valid_header, file_size))
                  ELSE progress_queue
            /\ pc' = "plan"
            /\ UNCHANGED exception
       ELSE /\ pc' = "error"
            /\ exception' =
                  [type |-> "FrameHeaderNotFoundError",
                   position |-> RaisePosition(next_target, current_position)]
            /\ UNCHANGED <<actual_splits, current_position, progress_queue>>
    /\ UNCHANGED <<input_file, frame_header, max_size_gb, queue_given,
                   max_size, next_target, last_valid_header, pos, part_num,
                   parts, warnings, result>>
    /\ UNCHANGED gui_vars

\* main.py:44 false, then main.py:91-94
PlanDone ==
    /\ pc = "plan"
    /\ ~LoopCond(current_position, max_size, file_size)
    /\ actual_splits' = ClosePlan(actual_splits, file_size)
    /\ part_num' = 1
    /\ pc' = "copy"
    /\ UNCHANGED <<input_file, frame_header, max_size_gb, queue_given,
                   max_size, current_position, next_target,
                   last_valid_header, pos, parts, warnings,
                   progress_queue, exception, result>>
    /\ UNCHANGED gui_vars

\* main.py:95-121, one iteration of the copy loop (i = part_num - 1)
CopyPart ==
    /\ pc = "copy"
    /\ part_num - 1 < Len(actual_splits) - 1
    /\ LET start == actual_splits[part_num]
           end == actual_splits[part_num + 1]
       IN /\ warnings' = IF end - start > max_size
                         THEN warnings \cup {part_num}
                         ELSE warnings
          /\ parts' = Append(parts, CopySegment(input_file, start, end))
          /\ part_num' = part_num + 1
          /\ IF ~queue_given
             THEN UNCHANGED <<progress_queue, pc, exception>>
             ELSE IF file_size = 0
                  THEN /\ pc' = "error"
                       /\ exception' = [type |-> "ZeroDivisionError",
                                        position |-> None]
                       /\ UNCHANGED progress_queue
                  ELSE /\ progress_queue' =
                             Append(progress_queue,
                                    ProgressPercent(end, file_size))
                       /\ UNCHANGED <<pc, exception>>
    /\ UNCHANGED <<input_file, frame_header, max_size_gb, queue_given,
                   max_size, actual_splits, current_position, next_target,
                   last_valid_header, pos, result>>
    /\ UNCHANGED gui_vars

\* main.py:123
Return ==
    /\ pc = "copy"
    /\ ~(part_num - 1 < Len(actual_splits) - 1)
    /\ result' = part_num - 1
    /\ pc' = "done"
    /\ UNCHANGED <<input_file, frame_header, max_size_gb, queue_given,
                   max_size, actual_splits, current_position, next_target,
                   last_valid_header, pos, part_num, parts, warnings,
                   progress_queue, exception>>
    /\ UNCHANGED gui_vars

---------------------------------------------------------------------------
(* The inputs of a direct call of optimized_split. *)

\* the lengths of the run of one repeated byte in the middle of a file: none,
\* and enough to lift the window's start above 0 for headers of 1 and 2 bytes
PadLens == {0, BackFactor, 2 * BackFactor}

\* the byte the padding repeats (the model is symmetric in the two bytes)
PadByte == CHOOSE b \in Bytes : \A c \in Bytes : c <= b

Padded(head, k, tail) == head \o [i \in 1..k |-> PadByte] \o tail

\* the free bytes before the padding: none or one
Heads == {<<>>} \cup {<<b>> : b \in Bytes}

\* max_size in bytes: every small size on an unpadded file; on a padded one
\* the sizes that put the first target around the end of the padding, and
\* those that put the second target there
SizesFor(k) ==
    IF k = 0 THEN 0..MaxSmallSize
    ELSE ((k - 1)..(k + 2)) \cup ((k \div 2)..(k \div 2 + 1))

Inputs ==
    UNION {{[data |-> Padded(head, k, tail), hdr |-> hdr, gb |-> 2 * size]
               : head \in Heads, tail \in SeqsUpTo(Bytes, MaxTail),
                 hdr \in SeqsUpTo(Bytes, MaxHeaderLen), size \in SizesFor(k)}
           : k \in PadLens}

\* optimized_split(input_file, output_dir, frame_header, max_size_gb,
\* progress_queue) called on its own, at main.py:43
Init ==
    /\ \E inp \in Inputs :
          /\ input_file = inp.data
          /\ frame_header = inp.hdr
          /\ max_size_gb = inp.gb
          /\ max_size = MaxSizeBytes(inp.gb)
    /\ queue_given \in BOOLEAN
    /\ actual_splits = <<0>>
    /\ current_position = 0
    /\ next_target = None
    /\ last_valid_header = None
    /\ pos = 0
    /\ part_num = 1
    /\ parts = <<>>
    /\ warnings = {}
    /\ progress_queue = <<>>
    /\ pc = "plan"
    /\ exception = NoException
    /\ result = None
    /\ header_text = <<>>
    /\ main_pc = "none"
    /\ thread = "none"
    /\ after_queue = <<>>
    /\ progress_var = 0
    /\ status_label = "ready"
    /\ last_dialog = "none"

Next ==
    \/ PlanStep
    \/ ScanStep
    \/ PlanDecide
    \/ PlanDone
    \/ CopyPart
    \/ Return

Spec == Init /\ [][Next]_vars

---------------------------------------------------------------------------
(* hex_to_bytes. *)

UpperLetters == <<"A", "B", "C", "D", "E", "F", "G", "H", "I", "J", "K", "L",
                  "M", "N", "O", "P", "Q", "R", "S", "T", "U", "V", "W", "X",
                  "Y", "Z">>
LowerLetters == <<"a", "b", "c", "d", "e", "f", "g", "h", "i", "j", "k", "l",
                  "m", "n", "o", "p", "q", "r", "s", "t", "u", "v", "w", "x",
                  "y", "z">>
\* main.py:132, the string '0123456789abcdef'
HexDigits == <<"0", "1", "2", "3", "4", "5", "6", "7", "8", "9", "a", "b",
               "c", "d", "e", "f">>

\* str.lower() on one character
Lower(c) ==
    IF \E i \in 1..Len(UpperLetters) : UpperLetters[i] = c
    THEN LowerLetters[CHOOSE i \in 1..Len(UpperLetters) : UpperLetters[i] = c]
    ELSE c

NotSpace(c) == c # " "

\* main.py:130, hex_str.replace(" ", "").lower()
CleanHex(hex_str) ==
    LET kept == SelectSeq(hex_str, NotSpace)
    IN [i \in 1..Len(kept) |-> Lower(kept[i])]

IsHexDigit(c) == \E i \in 1..Len(HexDigits) : HexDigits[i] = c

HexValue(c) == (CHOOSE i \in 1..Len(HexDigits) : HexDigits[i] = c) - 1

\* main.py:126-137: raised is TRUE when ValueError is raised, bytes is the
\* value returned otherwise.  binascii.unhexlify raises on an odd number of
\* digits and returns b'' for the empty string.
hex_to_bytes(hex_str) ==
    LET clean_hex == CleanHex(hex_str)
    IN IF ~(\A i \in 1..Len(clean_hex) : IsHexDigit(clean_hex[i]))
       THEN [raised |-> TRUE, bytes |-> <<>>]
       ELSE IF Len(clean_hex) % 2 = 1
       THEN [raised |-> TRUE, bytes |-> <<>>]
       ELSE [raised |-> FALSE,
             bytes |-> [k \in 1..(Len(clean_hex) \div 2) |->
                           16 * HexValue(clean_hex[2 * k - 1])
                              + HexValue(clean_hex[2 * k])]]

---------------------------------------------------------------------------
(* start_processing, run_split_task and update_progress_bar. *)

\* main.py:157-213: the checks of the form, and the start of the worker.
\* The input path names the existing file input_file and the output
\* directory is filled in; max_size_gb <= 0 stands for every size text the
\* check at main.py:163-168 refuses.
StartProcessing ==
    /\ main_pc = "idle"
    /\ IF max_size_gb <= 0
       THEN /\ last_dialog' = "size_error"
            /\ main_pc' = "rejected"
            /\ UNCHANGED <<frame_header, max_size, actual_splits,
                           current_position, pc, thread, status_label>>
       ELSE IF header_text = <<>>
       THEN /\ last_dialog' = "fields_error"
            /\ main_pc' = "rejected"
            /\ UNCHANGED <<frame_header, max_size, actual_splits,
                           current_position, pc, thread, status_label>>
       ELSE IF hex_to_bytes(header_text).raised
       THEN /\ last_dialog' = "header_error"
            /\ main_pc' = "rejected"
            /\ UNCHANGED <<frame_header, max_size, actual_splits,
                           current_position, pc, thread, status_label>>
       ELSE /\ frame_header' = hex_to_bytes(header_text).bytes
            /\ status_label' = "using_header"
            /\ thread' = "running"
            /\ EnterSplit(max_size_gb)
            /\ main_pc' = "started"
            /\ UNCHANGED last_dialog
    /\ UNCHANGED <<input_file, max_size_gb, queue_given, next_target,
                   last_valid_header, pos, part_num, parts, warnings,
                   progress_queue, exception, result>>
    /\ UNCHANGED <<header_text, after_queue, progress_var>>

\* main.py:217-223, the queue drained, the bar left at the last value taken
DrainQueue ==
    IF progress_queue # <<>>
    THEN /\ progress_var' = progress_queue[Len(progress_queue)]
         /\ status_label' = "processing"
         /\ progress_queue' = <<>>
    ELSE UNCHANGED <<progress_var, status_label, progress_queue>>

\* main.py:226-229, the end of start_processing: the bar set to 0 and the
\* first call of update_progress_bar, before the main loop runs a callback
FirstPoll ==
    /\ main_pc = "started"
    /\ IF progress_queue # <<>>
       THEN DrainQueue
       ELSE /\ progress_var' = 0
            /\ status_label' = "processing"
            /\ UNCHANGED progress_queue
    /\ main_pc' = "loop"
    /\ UNCHANGED <<input_file, frame_header, max_size_gb, queue_given,
                   max_size, actual_splits, current_position, next_target,
                   last_valid_header, pos, part_num, parts, warnings, pc,
                   exception, result>>
    /\ UNCHANGED <<header_text, thread, after_queue, last_dialog>>

\* main.py:216-224, update_progress_bar run by the main loop every 100 ms
PollerTick ==
    /\ main_pc = "loop"
    /\ DrainQueue
    /\ UNCHANGED <<input_file, frame_header, max_size_gb, queue_given,
                   max_size, actual_splits, current_position, next_target,
                   last_valid_header, pos, part_num, parts, warnings, pc,
                   exception, result>>
    /\ UNCHANGED <<header_text, main_pc, thread, after_queue, last_dialog>>

\* main.py:201-202 and 210: optimized_split returned
WorkerReturn ==
    /\ thread = "running"
    /\ pc = "done"
    /\ after_queue' = after_queue \o <<"status_done", "showinfo", "reset">>
    /\ thread' = "exited"
    /\ UNCHANGED split_vars
    /\ UNCHANGED <<header_text, main_pc, progress_var, status_label,
                   last_dialog>>

\* main.py:203-210: optimized_split raised
WorkerExcept ==
    /\ thread = "running"
    /\ pc = "error"
    /\ after_queue' = after_queue \o
          (IF exception.type = "FrameHeaderNotFoundError"
           THEN <<"status_notfound", "showerror", "reset">>
           ELSE <<"status_failed", "showerror", "reset">>)
    /\ thread' = "exited"
    /\ UNCHANGED split_vars
    /\ UNCHANGED <<header_text, main_pc, progress_var, status_label,
                   last_dialog>>

\* the main loop runs the oldest callback scheduled with root.after(0, ...)
RunCallback ==
    /\ main_pc = "loop"
    /\ after_queue # <<>>
    /\ LET cb == Head(after_queue)
       IN /\ status_label' =
                IF cb = "status_done" THEN "done"
                ELSE IF cb = "status_notfound" THEN "notfound"
                ELSE IF cb = "status_failed" THEN "failed"
                ELSE status_label
          /\ last_dialog' =
                IF cb = "showinfo" THEN "info"
                ELSE IF cb = "showerror" THEN "error"
                ELSE last_dialog
          /\ progress_var' = IF cb = "reset" THEN 0 ELSE progress_var
    /\ after_queue' = Tail(after_queue)
    /\ UNCHANGED split_vars
    /\ UNCHANGED <<header_text, main_pc, thread>>

\* the characters typed into the header entry
TextChars == {" ", "5", "A", "a", "z"}

\* the window shown, the form filled in, the start button not yet pressed
InitGui ==
    /\ input_file \in SeqsUpTo(Bytes, MaxGuiLen)
    /\ header_text \in SeqsUpTo(TextChars, MaxTextLen)
    /\ max_size_gb \in 0..MaxGuiGb
    /\ queue_given = TRUE
    /\ frame_header = <<>>
    /\ max_size = 0
    /\ actual_splits = <<>>
    /\ current_position = 0
    /\ next_target = None
    /\ last_valid_header = None
    /\ pos = 0
    /\ part_num = 1
    /\ parts = <<>>
    /\ warnings = {}
    /\ progress_queue = <<>>
    /\ pc = "idle"
    /\ exception = NoException
    /\ result = None
    /\ main_pc = "idle"
    /\ thread = "none"
    /\ after_queue = <<>>
    /\ progress_var = 0
    /\ status_label = "ready"
    /\ last_dialog = "none"

NextGui ==
    \/ StartProcessing
    \/ FirstPoll
    \/ PlanStep
    \/ ScanStep
    \/ PlanDecide
    \/ PlanDone
    \/ CopyPart
    \/ Return
    \/ WorkerReturn
    \/ WorkerExcept
    \/ RunCallback
    \/ PollerTick

SpecGui == InitGui /\ [][NextGui]_vars

---------------------------------------------------------------------------
(* Vocabulary of the properties. *)

\* hdr occurs in data at offset o
Occurs(data, hdr, o) ==
    /\ o >= 0
    /\ o + Len(hdr) <= Len(data)
    /\ MatchAt(data, hdr, o)

\* the source bytes [a, b)
ByteRange(data, a, b) == [i \in 1..(b - a) |-> data[a + i]]

RECURSIVE Concat(_)
Concat(ss) == IF ss = <<>> THEN <<>> ELSE Head(ss) \o Concat(Tail(ss))

\* actual_splits holds the closing file_size
PlanClosed ==
    \/ pc \in {"copy", "done"}
    \/ pc = "error" /\ exception.type = "ZeroDivisionError"

\* the number of segments of actual_splits that are not the final one
NonFinalSegments ==
    IF PlanClosed THEN Len(actual_splits) - 2 ELSE Len(actual_splits) - 1

SegmentLen(i) == actual_splits[i + 1] - actual_splits[i]

\* no proper prefix of hdr is a suffix of it: two occurrences cannot overlap
Unbordered(hdr) ==
    \A k \in 1..(Len(hdr) - 1) :
        SubSeq(hdr, 1, k) # SubSeq(hdr, Len(hdr) - k + 1, Len(hdr))

\* the offsets <= target at which the header occurs within the search window
\* of the planning step in progress
WindowOccurrences ==
    {o \in SearchStart(next_target, frame_header)
             ..(SearchEnd(next_target, frame_header, file_size) - 1) :
        /\ o <= next_target
        /\ o + Len(frame_header)
              <= SearchEnd(next_target, frame_header, file_size)
        /\ MatchAt(input_file, frame_header, o)}

\* x is the greatest of them, or None when there is none
IsGreatestWindowOccurrence(x) ==
    LET occ == WindowOccurrences
    IN IF occ = {} THEN x = None
       ELSE x \in occ /\ \A q \in occ : q <= x

ValidCall == frame_header # <<>> /\ max_size > 0

---------------------------------------------------------------------------
(* C1 *)

\* C1 as stated: on every successful return for a non-empty header and a
\* positive max size, actual_splits starts at 0, ends at file_size and is
\* strictly increasing.
C1_CoverageStrict ==
    (pc = "done" /\ ValidCall) =>
        /\ actual_splits[1] = 0
        /\ actual_splits[Len(actual_splits)] = file_size
        /\ \A i \in 1..(Len(actual_splits) - 1) :
              actual_splits[i] < actual_splits[i + 1]

\* C1 amended: on every successful return for a non-empty header and a
\* positive max size, actual_splits starts at 0, ends at file_size and never
\* decreases, so its segments cover [0, file_size) without gap or overlap; it
\* is strictly increasing when the file is not empty, and is <<0, 0>> (one
\* empty segment) when the file is empty.
C1_Coverage ==
    (pc = "done" /\ ValidCall) =>
        /\ Len(actual_splits) >= 2
        /\ actual_splits[1] = 0
        /\ actual_splits[Len(actual_splits)] = file_size
        /\ \A i \in 1..(Len(actual_splits) - 1) :
              actual_splits[i] <= actual_splits[i + 1]
        /\ file_size > 0 =>
              \A i \in 1..(Len(actual_splits) - 1) :
                  actual_splits[i] < actual_splits[i + 1]
        /\ file_size = 0 => actual_splits = <<0, 0>>

\* a successful run whose plan has three segments
C1_Witness ==
    pc = "done" /\ ValidCall /\ Len(actual_splits) >= 4

---------------------------------------------------------------------------
(* C2 *)

\* C2: at every interior offset of actual_splits (every offset but the first
\* 0 and the closing file_size) the bytes of the source file equal
\* frame_header.
C2_BoundaryAlignment ==
    \A i \in 2..(NonFinalSegments + 1) :
        Occurs(input_file, frame_header, actual_splits[i])

\* a successful run with two interior offsets, the last found in a window
\* that does not start at the beginning of the file
C2_Witness ==
    /\ pc = "done"
    /\ Len(actual_splits) >= 4
    /\ SearchStart(next_target, frame_header) > 0

---------------------------------------------------------------------------
(* C3 *)

\* C3: every non-final segment of actual_splits is at most max_size long.
C3_SizeBound ==
    \A i \in 1..NonFinalSegments : SegmentLen(i) <= max_size

\* a successful run with a non-final segment of exactly max_size bytes and
\* a shorter one
C3_Witness ==
    /\ pc = "done"
    /\ \E i \in 1..NonFinalSegments : SegmentLen(i) = max_size
    /\ \E i \in 1..NonFinalSegments : SegmentLen(i) < max_size

---------------------------------------------------------------------------
(* C4 *)

\* C4: the values put on the progress queue during one run (nothing takes
\* from the queue in a direct call, so it holds them all) never decrease and
\* lie in 0..100.
C4_MonotonicProgress ==
    /\ \A i \in 1..Len(progress_queue) : progress_queue[i] \in 0..100
    /\ \A i \in 1..(Len(progress_queue) - 1) :
          progress_queue[i] <= progress_queue[i + 1]

---------------------------------------------------------------------------
(* C5 *)

\* C5: after a successful run the returned count is the number of part
\* files and of plan segments, part k holds the source bytes
\* [actual_splits[k], actual_splits[k + 1]), and the parts concatenated in
\* index order are the input file.
C5_RoundTrip ==
    pc = "done" =>
        /\ result = Len(parts)
        /\ result = Len(actual_splits) - 1
        /\ \A k \in 1..Len(parts) :
              parts[k] = ByteRange(input_file, actual_splits[k],
                                   actual_splits[k + 1])
        /\ Concat(parts) = input_file

\* a successful run that wrote three parts or more
C5_Witness ==
    pc = "done" /\ result >= 3 /\ Len(parts) = result

---------------------------------------------------------------------------
(* C6 *)

NoOccurrence ==
    \A o \in 0..file_size : ~Occurs(input_file, frame_header, o)

FailsAtFirstStep ==
    /\ pc \in {"plan", "scan", "decide", "error"}
    /\ pc = "plan" => next_target = None
    /\ pc # "plan" => next_target = max_size
    /\ last_valid_header = None
    /\ pc = "error" =>
          exception = [type |-> "FrameHeaderNotFoundError",
                       position |-> max_size]
    /\ actual_splits = <<0>>
    /\ parts = <<>>

\* C6 as stated: on every input file without an occurrence of the header
\* (and a positive max size) the run fails in the first planning step with
\* FrameHeaderNotFoundError at position max_size, and no part file is
\* written.
C6_NoMarkerAlwaysFails ==
    (NoOccurrence /\ max_size > 0) => FailsAtFirstStep

\* C6 amended: on every input file larger than max_size without an
\* occurrence of the header the run fails in the first planning step with
\* FrameHeaderNotFoundError at position max_size, and no part file is
\* written.
C6_NoMarkerFails ==
    FailsAtFirstStep \/ ~(file_size > max_size /\ NoOccurrence)

\* the error raised on a file without the header, the window not starting
\* at the beginning of the file
C6_Witness ==
    /\ NoOccurrence
    /\ file_size > max_size
    /\ pc = "error"
    /\ SearchStart(next_target, frame_header) > 0

---------------------------------------------------------------------------
(* C9 *)

\* C9 as stated: when the scan of a planning step ends, last_valid_header
\* is the greatest offset <= target at which the header occurs in the
\* window, whatever the header.
C9_ClosestFromBelowAnyHeader ==
    pc = "decide" => IsGreatestWindowOccurrence(last_valid_header)

\* C9 amended: when the scan of a planning step ends, last_valid_header is
\* the greatest offset <= target at which the header occurs in the window,
\* for every header that cannot overlap itself.
C9_ClosestFromBelow ==
    (pc = "decide" /\ Unbordered(frame_header)) =>
        IsGreatestWindowOccurrence(last_valid_header)

\* the scan ended on a two-byte header that cannot overlap itself, in a
\* window cut off at its start, with an occurrence at or before the target
\* and one past it
C9_Witness ==
    /\ pc = "decide"
    /\ Unbordered(frame_header)
    /\ Len(frame_header) = 2
    /\ SearchStart(next_target, frame_header) > 0
    /\ WindowOccurrences # {}
    /\ \E o \in (next_target + 1)..file_size :
          /\ o + Len(frame_header)
                <= SearchEnd(next_target, frame_header, file_size)
          /\ MatchAt(input_file, frame_header, o)

---------------------------------------------------------------------------
(* C10 *)

SmallInputs == {inp \in Inputs : Len(inp.data) <= 1 + MaxTail}

\* C10 as stated: there are inputs on which the plan is produced and its
\* final segment is longer than max_size, and the oversize warning is raised
\* for that part: either the run at hand has raised it, or a run on one of
\* the unpadded inputs has such a plan.
C10_OversizeFinalExists ==
    \/ warnings # {}
    \/ \E inp \in SmallInputs :
          LET plan == PlanFrom(inp.data, inp.hdr, MaxSizeBytes(inp.gb),
                               0, <<0>>)
          IN /\ plan # <<>>
             /\ plan[Len(plan)] - plan[Len(plan) - 1] > MaxSizeBytes(inp.gb)

\* C10 amended: the final segment is bounded like the others: once the plan
\* is closed every segment, the final one included, is at most max_size
\* long, the oversize warning is raised for no part, and a successful run
\* has written every part and returns their count.
C10_NoOversizeSegment ==
    /\ warnings = {}
    /\ PlanClosed =>
          \A i \in 1..(Len(actual_splits) - 1) : SegmentLen(i) <= max_size
    /\ pc = "done" =>
          result = Len(actual_splits) - 1 /\ Len(parts) = result

\* a successful run of several parts whose final segment is exactly
\* max_size long
C10_Witness ==
    /\ pc = "done"
    /\ Len(actual_splits) >= 3
    /\ SegmentLen(Len(actual_splits) - 1) = max_size

---------------------------------------------------------------------------
(* C7 *)

\* C7: when the worker has ended on a fatal error, the queue is empty and
\* every scheduled callback has run, the progress bar shows 0.
C7_ResetOnFatalError ==
    (/\ thread = "exited"
     /\ pc = "error"
     /\ main_pc = "loop"
     /\ progress_queue = <<>>
     /\ after_queue = <<>>) => progress_var = 0

---------------------------------------------------------------------------
(* C8 *)

\* C8: once start_processing has passed the size and blank-field checks, a
\* header text with a character outside 0-9a-f after cleaning is refused with
\* the header error, so is a text whose bytes would be empty, and the worker
\* is never started with an empty frame_header.
C8_MarkerParsing ==
    /\ (main_pc \in {"rejected", "started", "loop"}
          /\ max_size_gb > 0 /\ header_text # <<>>) =>
          LET clean_hex == CleanHex(header_text)
          IN /\ (\E i \in 1..Len(clean_hex) : ~IsHexDigit(clean_hex[i])) =>
                    (last_dialog = "header_error" /\ thread = "none")
             /\ Len(clean_hex) \div 2 = 0 =>
                    (last_dialog = "header_error" /\ thread = "none")
    /\ thread # "none" => frame_header # <<>>

====
